---- MODULE Spec2Model ----
(***************************************************************************)
(* Timekeeper: pay-period accounting engine of script.js.                  *)
(*                                                                         *)
(* Strings are modelled as sequences of character codes: the digits are    *)
(* 0..9, ':' is Colon and '-' is Dash.  "HH:MM" is a sequence of 5 codes   *)
(* and "YYYY-MM-DD" a sequence of 10 codes, so that parsing and formatting *)
(* are real conversions.  A Date object is an instant, kept as its UTC     *)
(* fields [y, m, d, min] (m is 1..12, min is the minute of the UTC day);   *)
(* the local fields are the UTC fields shifted by tzOffset minutes.        *)
(***************************************************************************)
EXTENDS Integers, Sequences, FiniteSets, TLC

VARIABLES
    tzOffset,       \* minutes local time is ahead of UTC (environment of the browser)
    calcIn,         \* computeWorkedMinutes: argument actualIn   ("HH:MM")
    calcOut,        \* computeWorkedMinutes: argument actualOut  ("HH:MM")
    calcDed,        \* computeWorkedMinutes: argument deduction
    calcRes,        \* computeWorkedMinutes: returned value (NoResult before the call)
    rsNow,          \* getPayPeriodStart: argument dateObj (an instant)
    rsDays,         \* getPayPeriodStart: the caller's startDays array
    rsRes,          \* getPayPeriodStart: returned string (<<>> before the call)
    rtStr,          \* round trip: a time string "HH:MM" (<<>> when none is drawn)
    rtStrBack,      \* round trip: minutesToTime(timeToMinutes(rtStr)) (<<>> before)
    rtMin,          \* round trip: a minute of the day (NoResult when none is drawn)
    rtMinBack,      \* round trip: timeToMinutes(minutesToTime(rtMin)) (NoResult before)
    summary,        \* generateSummary: whether it has run, and the rows it returned
    useFirestore,   \* Storage.useFirestore, set once by Storage.init()
    accounts,       \* stored accounts (localStorage array / Firestore collection)
    logs,           \* stored work logs (localStorage array / Firestore collection in document-id order)
    paySettings,    \* stored paySettings.startDays
    currentPunch,   \* stored open punch per username (NoPunch when there is none)
    nextLogId,      \* Firestore: the next document id handed out by logs.add()
    clock,          \* index of the current instant in ClockInstants
    currentUser,    \* per client: username of currentUser (NoUser when null)
    logsTable,      \* per client: the logs array the logs table of the admin view closes over
    last,           \* how the handler that ran last ended, and for which user
    steps,          \* number of handlers run so far
    punchHist,      \* history, per employee: the day of the punch-in that was the
                    \* employee's last punch operation, and whether the account
                    \* was deleted since
    payInput,       \* the text typed in the pay-period field (SpecPay)
    addPending,     \* per client: the add-employee handler waiting for the accounts
                    \* it asked for (its account to add and the accounts it gets)
    punchPage       \* per client: whether the employee view shows the punch-in
                    \* button (else the punch-out button), and the punch handler
                    \* waiting at an await: its `now` and the punch map it read

calcVars == <<calcIn, calcOut, calcDed, calcRes>>
rsVars == <<rsNow, rsDays, rsRes>>
rtVars == <<rtStr, rtStrBack, rtMin, rtMinBack>>
pureVars == <<calcVars, rsVars, rtVars, summary>>
storeVars == <<accounts, logs, paySettings, currentPunch, nextLogId>>
clientVars == <<currentUser, logsTable>>
appVars == <<useFirestore, accounts, logs, paySettings, currentPunch, nextLogId,
             clock, currentUser, logsTable, last, steps, punchHist,
          payInput, addPending, punchPage>>
vars == <<tzOffset, calcIn, calcOut, calcDed, calcRes, rsNow, rsDays, rsRes,
          rtStr, rtStrBack, rtMin, rtMinBack, summary,
          useFirestore, accounts, logs, paySettings, currentPunch, nextLogId,
          clock, currentUser, logsTable, last, steps, punchHist,
          payInput, addPending, punchPage>>

Colon == 10
Dash == 11
NoResult == -1
NoSummary == [done |-> FALSE, rows |-> <<>>]

----------------------------------------------------------------------------
(* Character-level helpers of the JavaScript runtime                       *)

RECURSIVE DigitsOf(_)
\* String(n) for an integer n >= 0
DigitsOf(n) == IF n < 10 THEN <<n>> ELSE DigitsOf(n \div 10) \o <<n % 10>>

\* s.padStart(2, '0')
padStart2(s) == IF Len(s) < 2 THEN <<0>> \o s ELSE s

\* s.padStart(4, '0')
RECURSIVE padStart4(_)
padStart4(s) == IF Len(s) < 4 THEN padStart4(<<0>> \o s) ELSE s

RECURSIVE NumberOf(_)
\* Number(s) for a string of decimal digits ("" converts to 0)
NumberOf(s) == IF s = <<>> THEN 0
               ELSE 10 * NumberOf(SubSeq(s, 1, Len(s) - 1)) + s[Len(s)]

RECURSIVE SplitOn(_, _)
\* s.split(sep) for a one-character separator
SplitOn(s, sep) ==
    IF \A i \in 1..Len(s) : s[i] # sep THEN <<s>>
    ELSE LET k == CHOOSE i \in 1..Len(s) :
                      s[i] = sep /\ \A j \in 1..(i - 1) : s[j] # sep
         IN <<SubSeq(s, 1, k - 1)>> \o SplitOn(SubSeq(s, k + 1, Len(s)), sep)

----------------------------------------------------------------------------
(* Time helpers                                                            *)

timeToMinutes(timeStr) ==
    LET parts == SplitOn(timeStr, Colon)
        h == NumberOf(parts[1])
        m == NumberOf(parts[2])
    IN h * 60 + m

\* Mutant of minutesToTime: the two parts are not padded to two digits
minutesToTimeUnpadded(mins) ==
    LET h == mins \div 60
        m == mins % 60
    IN DigitsOf(h) \o <<Colon>> \o DigitsOf(m)

minutesToTime(mins) ==
    LET h == mins \div 60
        m == mins % 60
    IN padStart2(DigitsOf(h)) \o <<Colon>> \o padStart2(DigitsOf(m))

----------------------------------------------------------------------------
(* Calendar of the Date object                                             *)

IsLeap(y) == (y % 4 = 0 /\ y % 100 # 0) \/ y % 400 = 0

\* new Date(y, m0 + 1, 0).getDate(): the number of days of month m0 (0-based)
DaysInMonth(y, m0) ==
    IF m0 = 1 THEN (IF IsLeap(y) THEN 29 ELSE 28)
    ELSE IF m0 \in {3, 5, 8, 10} THEN 30 ELSE 31

PrevDay(t) ==
    IF t.d > 1 THEN [t EXCEPT !.d = t.d - 1]
    ELSE IF t.m > 1 THEN [t EXCEPT !.m = t.m - 1, !.d = DaysInMonth(t.y, t.m - 2)]
    ELSE [t EXCEPT !.y = t.y - 1, !.m = 12, !.d = 31]

NextDay(t) ==
    IF t.d < DaysInMonth(t.y, t.m - 1) THEN [t EXCEPT !.d = t.d + 1]
    ELSE IF t.m < 12 THEN [t EXCEPT !.m = t.m + 1, !.d = 1]
    ELSE [t EXCEPT !.y = t.y + 1, !.m = 1, !.d = 1]

\* the instant t moved by delta minutes, -1440 < delta < 1440
ShiftMinutes(t, delta) ==
    LET total == t.min + delta
    IN IF total < 0 THEN [PrevDay(t) EXCEPT !.min = total + 1440]
       ELSE IF total >= 1440 THEN [NextDay(t) EXCEPT !.min = total - 1440]
       ELSE [t EXCEPT !.min = total]

\* the local wall-clock fields of an instant
LocalFields(t) == ShiftMinutes(t, tzOffset)

getDate(t) == LocalFields(t).d
getMonth(t) == LocalFields(t).m - 1
getFullYear(t) == LocalFields(t).y

\* new Date(year, month0, day): local midnight of that local calendar day
NewDate(year, month0, day) ==
    ShiftMinutes([y |-> year, m |-> month0 + 1, d |-> day, min |-> 0], -tzOffset)

\* "YYYY-MM-DD" of calendar fields
IsoOf(y, m, d) ==
    padStart4(DigitsOf(y)) \o <<Dash>> \o padStart2(DigitsOf(m))
        \o <<Dash>> \o padStart2(DigitsOf(d))

\* t.toISOString().slice(0, 10): the UTC calendar day of the instant
toISODate(t) == IsoOf(t.y, t.m, t.d)

\* t.toTimeString().slice(0, 5): the local time of day "HH:MM"
toTimeHM(t) ==
    LET l == LocalFields(t)
    IN padStart2(DigitsOf(l.min \div 60)) \o <<Colon>> \o padStart2(DigitsOf(l.min % 60))

----------------------------------------------------------------------------
(* Pay period resolver                                                     *)

\* the value callers pass for "no startDays array" (null / undefined)
NullDays == <<-1>>

RECURSIVE InsertSorted(_, _)
InsertSorted(x, s) ==
    IF s = <<>> THEN <<x>>
    ELSE IF x < s[1] THEN <<x>> \o s
    ELSE <<s[1]>> \o InsertSorted(x, Tail(s))

RECURSIVE SortAsc(_)
\* a.sort((a, b) => a - b) on numbers
SortAsc(s) == IF s = <<>> THEN <<>> ELSE InsertSorted(s[1], SortAsc(Tail(s)))

\* Mutant of SortedCopy: the copy is not sorted
UnsortedCopy(startDaysParam) ==
    [startDays |-> IF startDaysParam = NullDays THEN <<1, 15>> ELSE startDaysParam,
     startDaysParam |-> startDaysParam]

\* (startDaysParam ?? [1, 15]).slice().sort((a, b) => a - b): the array the
\* function works on, and the caller's array after the call, which slice()
\* protects from the in-place sort
SortedCopy(startDaysParam) ==
    [startDays |-> SortAsc(IF startDaysParam = NullDays THEN <<1, 15>>
                                                         ELSE startDaysParam),
     startDaysParam |-> startDaysParam]

MaxOf(S) == CHOOSE x \in S : \A z \in S : z <= x
MinOf(S) == CHOOSE x \in S : \A z \in S : x <= z
Min2(a, b) == IF a <= b THEN a ELSE b

\* the for loop of getPayPeriodStart: the index of the start day left in
\* chosenDay, 0 when chosenDay stays null
ChosenIndex(startDays, day) ==
    LET q == {i \in 1..Len(startDays) : day >= startDays[i]}
    IN IF q = {} THEN 0 ELSE MaxOf(q)

\* the branch chosenDay === null
PrevMonthStart(year, month, startDays) ==
    LET prevMonth == (month - 1 + 12) % 12
        prevYear == IF month = 0 THEN year - 1 ELSE year
        lastDay == startDays[Len(startDays)]
        daysInPrevMonth == DaysInMonth(prevYear, prevMonth)
        startDate == NewDate(prevYear, prevMonth, Min2(lastDay, daysInPrevMonth))
    IN toISODate(startDate)

\* the branch chosenDay !== null
ThisMonthStart(year, month, chosenDay) ==
    LET daysInMonth == DaysInMonth(year, month)
        actualDay == Min2(chosenDay, daysInMonth)
        startDate == NewDate(year, month, actualDay)
    IN toISODate(startDate)

getPayPeriodStart(dateObj, startDaysParam) ==
    LET startDays == SortedCopy(startDaysParam).startDays
        day == getDate(dateObj)
        month == getMonth(dateObj)
        year == getFullYear(dateObj)
        chosen == ChosenIndex(startDays, day)
    IN IF chosen = 0
       THEN PrevMonthStart(year, month, startDays)
       ELSE ThisMonthStart(year, month, startDays[chosen])

----------------------------------------------------------------------------
(* Worked-time calculator                                                  *)

\* Mutant of computeWorkedMinutes: a shift crossing midnight is rolled over
computeWorkedMinutesRollover(actualIn, actualOut, deduction) ==
    LET ai == timeToMinutes(actualIn)
        ao == timeToMinutes(actualOut)
        m1 == IF ao - ai < 0 THEN ao - ai + 24 * 60 ELSE ao - ai
        m2 == m1 - deduction
    IN IF m2 < 0 THEN 0 ELSE m2

\* Mutant of computeWorkedMinutes: the result is not floored after the deduction
computeWorkedMinutesNoFloor(actualIn, actualOut, deduction) ==
    LET ai == timeToMinutes(actualIn)
        ao == timeToMinutes(actualOut)
        m1 == IF ao - ai < 0 THEN 0 ELSE ao - ai
    IN m1 - deduction

computeWorkedMinutes(actualIn, actualOut, deduction) ==
    LET ai == timeToMinutes(actualIn)
        ao == timeToMinutes(actualOut)
        m0 == ao - ai
        m1 == IF m0 < 0 THEN 0 ELSE m0
        m2 == m1 - deduction
    IN IF m2 < 0 THEN 0 ELSE m2

\* computeWorkedMinutes called with two arguments: deduction takes its default
computeWorkedMinutes2(actualIn, actualOut) ==
    computeWorkedMinutes(actualIn, actualOut, 0)

----------------------------------------------------------------------------
(* Text inputs: parseInt / trim on character codes                         *)

LetterX == 12
Space == 13
Comma == 14

RECURSIVE TrimStart(_)
TrimStart(s) == IF s # <<>> /\ s[1] = Space THEN TrimStart(Tail(s)) ELSE s

RECURSIVE TrimEnd(_)
TrimEnd(s) ==
    IF s # <<>> /\ s[Len(s)] = Space THEN TrimEnd(SubSeq(s, 1, Len(s) - 1)) ELSE s

\* s.trim()
Trim(s) == TrimEnd(TrimStart(s))

RECURSIVE DigitPrefix(_)
\* the longest prefix of s made of decimal digits
DigitPrefix(s) ==
    IF s # <<>> /\ s[1] \in 0..9 THEN <<s[1]>> \o DigitPrefix(Tail(s)) ELSE <<>>

NaN == [nan |-> TRUE, val |-> 0]
Num(n) == [nan |-> FALSE, val |-> n]

\* parseInt(s): leading white space is skipped, a sign is read, then the
\* digits up to the first other character; NaN when there is no digit
parseInt(s) ==
    LET t == TrimStart(s)
        neg == t # <<>> /\ t[1] = Dash
        body == IF neg THEN Tail(t) ELSE t
        ds == DigitPrefix(body)
    IN IF ds = <<>> THEN NaN
       ELSE Num(IF neg THEN 0 - NumberOf(ds) ELSE NumberOf(ds))

----------------------------------------------------------------------------
(* Application state                                                       *)

MaxSteps == 5

Clients == {1, 2}
Employees == {"ann", "bob"}
Users == Employees \cup {"admin"}
NoUser == ""
NoRate == -1
NoDeduction == -1
NoId == 0
NoPunch == [date |-> <<>>, punchIn |-> <<>>]

\* the instants at which handlers run, all on or after 2024-01-15 (UTC)
ClockInstants ==
    << [y |-> 2024, m |-> 1, d |-> 15, min |-> 60],
       [y |-> 2024, m |-> 1, d |-> 15, min |-> 600],
       [y |-> 2024, m |-> 1, d |-> 15, min |-> 1380],
       [y |-> 2024, m |-> 1, d |-> 16, min |-> 480] >>

\* new Date()
Now == ClockInstants[clock]

AdminAccount ==
    [username |-> "admin", password |-> "admin", role |-> "admin", hourlyRate |-> NoRate]

DefaultStartDays == <<1, 15>>

\* which handler ran, what it leaves for the user to see ("ok", or the name
\* of its error) and the username it was about: who punched, who was deleted
Outcome(op, msg, username) == [op |-> op, msg |-> msg, user |-> username]

NoHist == [at |-> <<>>, deleted |-> FALSE]

\* the employee view as it is before loadEmployeeView has found a punch of
\* today: the punch-in button shown, no punch handler waiting
NoPage == [punchInShown |-> TRUE, op |-> "", at |-> 0,
           map |-> [u \in Employees |-> NoPunch]]

\* no add-employee handler is waiting
NoAdd == [account |-> [username |-> "", password |-> "", role |-> "", hourlyRate |-> NoRate],
          accounts |-> <<>>]

----------------------------------------------------------------------------
(* Storage                                                                 *)

\* accounts.findIndex(a => a.username === username), 1-based, 0 when absent
FindIndex(accs, username) ==
    IF \E i \in 1..Len(accs) : accs[i].username = username
    THEN MinOf({i \in 1..Len(accs) : accs[i].username = username})
    ELSE 0

HasAccount(username) == FindIndex(accounts, username) # 0

\* the accounts after Storage.upsertAccount(account)
upsertAccount(accs, account) ==
    LET idx == FindIndex(accs, account.username)
    IN IF idx > 0 THEN [accs EXCEPT ![idx] = account] ELSE Append(accs, account)

\* Mutant of deleteAccountLogs: the first log is removed too, whoever it is of
deleteAccountLogsAndFirst(ls, username) ==
    SelectSeq(IF ls = <<>> THEN ls ELSE Tail(ls), LAMBDA log : log.username # username)

\* the logs after Storage.deleteAccount(username)
deleteAccountLogs(ls, username) ==
    SelectSeq(ls, LAMBDA log : log.username # username)

\* the accounts after Storage.deleteAccount(username)
deleteAccountAccounts(accs, username) ==
    SelectSeq(accs, LAMBDA a : a.username # username)

\* lexicographic order of two strings of the same shape
RECURSIVE StrLess(_, _)
StrLess(a, b) ==
    IF a = <<>> THEN b # <<>>
    ELSE IF b = <<>> THEN FALSE
    ELSE IF a[1] # b[1] THEN a[1] < b[1]
    ELSE StrLess(Tail(a), Tail(b))

RECURSIVE InsertByDate(_, _)
InsertByDate(x, s) ==
    IF s = <<>> THEN <<x>>
    ELSE IF StrLess(x.date, s[1].date) THEN <<x>> \o s
    ELSE <<s[1]>> \o InsertByDate(x, Tail(s))

RECURSIVE SortByDate(_)
\* logs.sort((a, b) => a.date.localeCompare(b.date)), a stable sort
SortByDate(s) ==
    IF s = <<>> THEN <<>>
    ELSE InsertByDate(s[Len(s)], SortByDate(SubSeq(s, 1, Len(s) - 1)))

\* Storage.getLogs()
getLogs(ls) == IF useFirestore THEN SortByDate(ls) ELSE ls

InsertAt(s, p, x) == SubSeq(s, 1, p - 1) \o <<x>> \o SubSeq(s, p, Len(s))

\* the stored logs after Storage.addLog(log); with Firestore the new
\* document's generated id puts it at place p of the collection
addLog(ls, log, p) ==
    IF useFirestore THEN InsertAt(ls, p, [log EXCEPT !.id = nextLogId])
    ELSE Append(ls, log)

\* Mutant of AssignFields: the update takes the pay period of the log away too
AssignFieldsAndPeriod(log, minutes, deduction) ==
    [log EXCEPT !.minutesWorked = minutes, !.deduction = deduction,
                !.payPeriodStart = <<>>]

\* Object.assign({}, log, { minutesWorked, deduction })
AssignFields(log, minutes, deduction) ==
    [log EXCEPT !.minutesWorked = minutes, !.deduction = deduction]

\* whether Storage.updateLog(logId, ...) finds a log to write
updateLogHits(ls, logId) ==
    IF useFirestore THEN \E i \in 1..Len(ls) : ls[i].id = logId
    ELSE logId >= 0 /\ logId < Len(ls)

\* the stored logs after Storage.updateLog(logId, { minutesWorked, deduction })
updateLog(ls, logId, minutes, deduction) ==
    IF useFirestore
    THEN [i \in 1..Len(ls) |->
             IF ls[i].id = logId THEN AssignFields(ls[i], minutes, deduction) ELSE ls[i]]
    ELSE IF logId >= 0 /\ logId < Len(ls)
         THEN [ls EXCEPT ![logId + 1] = AssignFields(ls[logId + 1], minutes, deduction)]
         ELSE ls

\* Mutant of setCurrentPunch: clearing a record leaves it in the map
setCurrentPunchNoClear(map, username, record) ==
    IF record = NoPunch THEN map ELSE [map EXCEPT ![username] = record]

\* the punch map after the write of a punch handler: the whole map with one
\* entry changed (localStorage), or the user's currentPunch field (Firestore)
setCurrentPunch(map, username, record) == [map EXCEPT ![username] = record]

----------------------------------------------------------------------------
(* Summary.  summaryMap and its empMaps are plain objects: their keys are  *)
(* kept in insertion order, and a key that names a property of             *)
(* Object.prototype reads as that inherited function until it is assigned. *)
(* A value of an empMap is a number, or the string that `+=` makes of the  *)
(* inherited function followed by the minutes appended to it.              *)

\* usernames, among those of the model, that name a property of Object.prototype
ProtoNames == {"constructor"}

MinutesValue(n) == [fn |-> FALSE, val |-> n, tail |-> <<>>]
InheritedFunction == [fn |-> TRUE, val |-> 0, tail |-> <<>>]

\* v + log.minutesWorked: addition of numbers, concatenation onto a string
PlusMinutes(v, m) ==
    IF v.fn THEN [v EXCEPT !.tail = @ \o DigitsOf(m)] ELSE [v EXCEPT !.val = @ + m]

PeriodIndex(map, period) ==
    IF \E i \in 1..Len(map) : map[i].period = period
    THEN CHOOSE i \in 1..Len(map) : map[i].period = period
    ELSE 0

UserIndex(empMap, user) ==
    IF \E i \in 1..Len(empMap) : empMap[i].user = user
    THEN CHOOSE i \in 1..Len(empMap) : empMap[i].user = user
    ELSE 0

\* if (!empMap[log.username]) empMap[log.username] = 0;
\* empMap[log.username] += log.minutesWorked;
AddToEmpMap(empMap, user, m) ==
    LET i == UserIndex(empMap, user)
    IN IF i > 0
       THEN [empMap EXCEPT ![i].total = PlusMinutes(@, m)]
       ELSE IF user \in ProtoNames
       THEN Append(empMap, [user |-> user, total |-> PlusMinutes(InheritedFunction, m)])
       ELSE Append(empMap, [user |-> user, total |-> PlusMinutes(MinutesValue(0), m)])

\* the body of logs.forEach
AddToSummaryMap(map, log) ==
    LET i == PeriodIndex(map, log.payPeriodStart)
        withPeriod == IF i > 0 THEN map
                      ELSE Append(map, [period |-> log.payPeriodStart, empMap |-> <<>>])
        k == IF i > 0 THEN i ELSE Len(withPeriod)
    IN [withPeriod EXCEPT ![k].empMap = AddToEmpMap(@, log.username, log.minutesWorked)]

RECURSIVE BuildSummaryMap(_, _)
BuildSummaryMap(ls, map) ==
    IF ls = <<>> THEN map
    ELSE BuildSummaryMap(Tail(ls), AddToSummaryMap(map, Head(ls)))

RECURSIVE InsertByPeriod(_, _)
InsertByPeriod(x, s) ==
    IF s = <<>> THEN <<x>>
    ELSE IF StrLess(x.period, s[1].period) THEN <<x>> \o s
    ELSE <<s[1]>> \o InsertByPeriod(x, Tail(s))

RECURSIVE SortByPeriod(_)
SortByPeriod(s) ==
    IF s = <<>> THEN <<>> ELSE InsertByPeriod(s[1], SortByPeriod(Tail(s)))

\* Mutant of SortedPeriods: the keys are taken in insertion order
UnsortedPeriods(map) == map

\* Object.keys(summaryMap).sort(), each key with its empMap
SortedPeriods(map) == SortByPeriod(map)

\* a / b rounded to the nearest integer, for a >= 0 and b > 0
RoundDiv(a, b) == (2 * a + b) \div (2 * b)

\* (mins / 60).toFixed(2), kept as the number of hundredths it prints
formatHours(mins) ==
    IF mins.fn THEN NaN ELSE Num(RoundDiv(mins.val * 100, 60))

\* Mutant of RateOf: the rate of the first stored employee account is taken
RateOfFirstEmployee(accs, user) ==
    IF \E i \in 1..Len(accs) : accs[i].hourlyRate # NoRate
    THEN accs[MinOf({i \in 1..Len(accs) : accs[i].hourlyRate # NoRate})].hourlyRate
    ELSE 0

\* accounts.find(a => a.username === user)?.hourlyRate || 0
RateOf(accs, user) ==
    LET idx == FindIndex(accs, user)
    IN IF idx = 0 THEN 0
       ELSE IF accs[idx].hourlyRate = NoRate THEN 0
       ELSE accs[idx].hourlyRate

\* (totalMins / 60 * rate).toFixed(2), kept as the number of cents it prints
PayOf(totalMins, rate) ==
    IF totalMins.fn THEN NaN ELSE Num(RoundDiv(totalMins.val * rate * 100, 60))

\* the rows pushed for one period; totalMins is the local of that name, from
\* which the row's totalHours and totalPay are made
RowsOfPeriod(entry, accs) ==
    [i \in 1..Len(entry.empMap) |->
        LET user == entry.empMap[i].user
            totalMins == entry.empMap[i].total
        IN [period |-> entry.period, user |-> user, totalMins |-> totalMins,
            totalHours |-> formatHours(totalMins),
            totalPay |-> PayOf(totalMins, RateOf(accs, user))]]

RECURSIVE RowsOf(_, _)
RowsOf(entries, accs) ==
    IF entries = <<>> THEN <<>>
    ELSE RowsOfPeriod(Head(entries), accs) \o RowsOf(Tail(entries), accs)

\* generateSummary() on the logs and accounts it reads from storage
generateSummary(ls, accs) ==
    RowsOf(SortedPeriods(BuildSummaryMap(ls, <<>>)), accs)

----------------------------------------------------------------------------
(* Handlers.  Each action is one handler run to completion, as the page    *)
(* runs it when its awaits are answered in turn.  Which section and which  *)
(* buttons a page shows is kept only as far as the handlers read it: a     *)
(* client is in the employee view or in the admin view of currentUser,     *)
(* and the logs table of the admin view holds the logs it was drawn from.  *)

\* the log the punch-out handler run at instant now passes to Storage.addLog
NewLog(username, punchRecord, now, startDays) ==
    [id |-> NoId,
     username |-> username,
     date |-> toISODate(now),
     punchIn |-> punchRecord.punchIn,
     punchOut |-> toTimeHM(now),
     minutesWorked |-> computeWorkedMinutes2(punchRecord.punchIn, toTimeHM(now)),
     payPeriodStart |-> getPayPeriodStart(now, startDays),
     deduction |-> NoDeduction]

\* the record the punch-in handler run at instant now stores
PunchRecord(now) == [date |-> toISODate(now), punchIn |-> toTimeHM(now)]

EmployeeAccount(username) ==
    [username |-> username, password |-> "pw", role |-> "employee", hourlyRate |-> 20]

\* the storage after Storage.init() and Storage.initDefaults()
FreshStore ==
    /\ accounts = <<AdminAccount>>
    /\ logs = <<>>
    /\ paySettings = DefaultStartDays
    /\ currentPunch = [u \in Employees |-> NoPunch]
    /\ nextLogId = 1
    /\ clock = 1

\* the storage after the admin has added ann and bob
StaffedStore ==
    /\ accounts = <<AdminAccount, EmployeeAccount("ann"), EmployeeAccount("bob")>>
    /\ logs = <<>>
    /\ paySettings = DefaultStartDays
    /\ currentPunch = [u \in Employees |-> NoPunch]
    /\ nextLogId = 1
    /\ clock = 1

\* the storage after, besides, ann has punched in at the first instant and
\* out at the second, and bob in at the second and out at the third
WorkedStore ==
    /\ accounts = <<AdminAccount, EmployeeAccount("ann"), EmployeeAccount("bob")>>
    /\ logs = LET a == NewLog("ann", PunchRecord(ClockInstants[1]),
                               ClockInstants[2], DefaultStartDays)
                  b == NewLog("bob", PunchRecord(ClockInstants[2]),
                               ClockInstants[3], DefaultStartDays)
              IN IF useFirestore
                 THEN <<[a EXCEPT !.id = 1], [b EXCEPT !.id = 2]>>
                 ELSE <<a, b>>
    /\ paySettings = DefaultStartDays
    /\ currentPunch = [u \in Employees |-> NoPunch]
    /\ nextLogId = IF useFirestore THEN 3 ELSE 1
    /\ clock = 3

InitApp ==
    /\ useFirestore \in BOOLEAN
    /\ FreshStore \/ StaffedStore \/ WorkedStore
    /\ currentUser = [c \in Clients |-> NoUser]
    /\ logsTable = [c \in Clients |-> <<>>]
    /\ last = Outcome("init", "ok", NoUser)
    /\ steps = 0
    /\ punchHist = [u \in Employees |-> NoHist]
    /\ payInput = <<>>
    /\ addPending = [c \in Clients |-> NoAdd]
    /\ punchPage = [c \in Clients |-> NoPage]

\* now.toISOString().slice(0, 10)
Today == toISODate(Now)

EmployeeView(c) == currentUser[c] \in Employees
AdminView(c) == currentUser[c] = "admin"

LoginInputs ==
    { [username |-> "admin", password |-> "admin", role |-> "admin"],
      [username |-> "ann", password |-> "pw", role |-> "employee"],
      [username |-> "bob", password |-> "pw", role |-> "employee"],
      [username |-> "bob", password |-> "admin", role |-> "employee"] }

Login(c, in) ==
    /\ steps < MaxSteps
    /\ steps' = steps + 1
    /\ currentUser[c] = NoUser
    /\ LET hits == {i \in 1..Len(accounts) :
                       /\ accounts[i].username = in.username
                       /\ accounts[i].password = in.password
                       /\ accounts[i].role = in.role}
       IN IF hits = {}
          THEN /\ last' = Outcome("login", "loginError", NoUser)
               /\ UNCHANGED clientVars
          ELSE LET account == accounts[MinOf(hits)]
               IN /\ currentUser' = [currentUser EXCEPT ![c] = account.username]
                  /\ last' = Outcome("login", "ok", NoUser)
                  /\ IF account.role = "employee"
                     THEN UNCHANGED logsTable
                     ELSE logsTable' = [logsTable EXCEPT ![c] = getLogs(logs)]
    /\ UNCHANGED <<tzOffset, pureVars, useFirestore, storeVars, clock, punchHist,
                   payInput, addPending, punchPage>>

\* employee logout and admin logout.  The admin section that is hidden is
\* drawn again by loadAdminView before it is shown again, so its table is
\* not kept.
Logout(c) ==
    /\ steps < MaxSteps
    /\ steps' = steps + 1
    /\ currentUser[c] # NoUser
    /\ currentUser' = [currentUser EXCEPT ![c] = NoUser]
    /\ logsTable' = [logsTable EXCEPT ![c] = <<>>]
    /\ last' = Outcome("logout", "ok", NoUser)
    /\ UNCHANGED <<tzOffset, pureVars, useFirestore, storeVars, clock, punchHist,
                   payInput, addPending, punchPage>>

PunchIn(c) ==
    /\ steps < MaxSteps
    /\ steps' = steps + 1
    /\ EmployeeView(c)
    /\ LET username == currentUser[c]
           record == PunchRecord(Now)
       IN IF useFirestore /\ ~HasAccount(username)
          THEN \* docRef.update() rejects: there is no document to update
               /\ last' = Outcome("punchIn", "punchInFailed", username)
               /\ punchHist' = [punchHist EXCEPT ![username] = NoHist]
               /\ UNCHANGED currentPunch
          ELSE /\ currentPunch' = setCurrentPunch(currentPunch, username, record)
               /\ last' = Outcome("punchIn", "ok", username)
               /\ punchHist' = [punchHist EXCEPT ![username] =
                                     [at |-> Today, deleted |-> FALSE]]
    /\ UNCHANGED <<tzOffset, pureVars, useFirestore, accounts, logs, paySettings,
                   nextLogId, clock, currentUser, logsTable,
                   payInput, addPending, punchPage>>

\* Mutant of PunchOutRejects: the date of the record is not looked at
PunchOutRejectsNoDate(punchRecord) == punchRecord = NoPunch

\* whether the punch-out handler finds no punch-in record for today
PunchOutRejects(punchRecord) == punchRecord = NoPunch \/ punchRecord.date # Today

PunchOut(c) ==
    /\ steps < MaxSteps
    /\ steps' = steps + 1
    /\ EmployeeView(c)
    /\ punchHist' = [punchHist EXCEPT ![currentUser[c]] = NoHist]
    /\ LET username == currentUser[c]
           punchRecord == currentPunch[username]
       IN IF PunchOutRejects(punchRecord)
          THEN \* alert('No punch in record found for today.')
               /\ last' = Outcome("punchOut", "noPunchRecord", username)
               /\ UNCHANGED <<logs, currentPunch, nextLogId>>
          ELSE /\ \E p \in 1..(Len(logs) + 1) :
                      logs' = addLog(logs, NewLog(username, punchRecord, Now, paySettings), p)
               /\ nextLogId' = IF useFirestore THEN nextLogId + 1 ELSE nextLogId
               /\ currentPunch' = setCurrentPunch(currentPunch, username, NoPunch)
               /\ last' = Outcome("punchOut", "ok", username)
    /\ UNCHANGED <<tzOffset, pureVars, useFirestore, accounts, paySettings,
                   clock, currentUser, logsTable,
                   payInput, addPending, punchPage>>

DeductInputs == {<<3, 0>>, <<Dash, 5>>, <<LetterX>>}

\* const deduction = isNaN(value) || value < 0 ? 0 : value
DeductionOf(input) ==
    LET value == parseInt(input)
    IN IF value.nan \/ value.val < 0 THEN 0 ELSE value.val

\* the Save button of row `row` (1-based) of the rendered logs table
SaveDeduct(c, row, input) ==
    /\ steps < MaxSteps
    /\ steps' = steps + 1
    /\ AdminView(c)
    /\ row \in 1..Len(logsTable[c])
    /\ LET logsAll == logsTable[c]
           logRecord == logsAll[row]
           id == IF useFirestore THEN logRecord.id ELSE row - 1
           deduction == DeductionOf(input)
           minutes == computeWorkedMinutes(logRecord.punchIn, logRecord.punchOut, deduction)
       IN IF useFirestore /\ ~updateLogHits(logs, id)
          THEN \* doc(logId).update() rejects: the handler stops at the await
               /\ last' = Outcome("saveDeduct", "saveDeductFailed", NoUser)
               /\ UNCHANGED <<logs, logsTable>>
          ELSE /\ logs' = updateLog(logs, id, minutes, deduction)
               /\ logsTable' = [logsTable EXCEPT ![c] = getLogs(logs')]
               /\ last' = Outcome("saveDeduct", "ok", NoUser)
    /\ UNCHANGED <<tzOffset, pureVars, useFirestore, accounts, paySettings,
                   currentPunch, nextLogId, clock, currentUser, punchHist,
                   payInput, addPending, punchPage>>

\* the Delete button of an employee row, confirmed
DeleteEmployee(c, username) ==
    /\ steps < MaxSteps
    /\ steps' = steps + 1
    /\ AdminView(c)
    /\ accounts' = deleteAccountAccounts(accounts, username)
    /\ logs' = deleteAccountLogs(logs, username)
    /\ currentPunch' = IF useFirestore
                       THEN [currentPunch EXCEPT ![username] = NoPunch]
                       ELSE currentPunch
    /\ logsTable' = [logsTable EXCEPT ![c] = getLogs(logs')]
    /\ last' = Outcome("delete", "ok", username)
    /\ punchHist' = IF HasAccount(username) /\ punchHist[username].at # <<>>
                    THEN [punchHist EXCEPT ![username].deleted = TRUE]
                    ELSE punchHist
    /\ UNCHANGED <<tzOffset, pureVars, useFirestore, paySettings, nextLogId,
                   clock, currentUser,
                   payInput, addPending, punchPage>>

AddInputs == [username : Employees \cup {""}, password : {"pw"}, rate : {<<2, 0>>, <<>>}]

AddEmployee(c, in) ==
    /\ steps < MaxSteps
    /\ steps' = steps + 1
    /\ AdminView(c)
    /\ LET rate == parseInt(in.rate)
       IN IF in.username = "" \/ in.password = "" \/ rate.nan
          THEN /\ last' = Outcome("addEmployee", "addEmployeeError", NoUser)
               /\ UNCHANGED <<accounts, currentPunch>>
          ELSE IF \E i \in 1..Len(accounts) : accounts[i].username = in.username
          THEN /\ last' = Outcome("addEmployee", "addEmployeeError", NoUser)
               /\ UNCHANGED <<accounts, currentPunch>>
          ELSE /\ accounts' = upsertAccount(accounts,
                                  [username |-> in.username, password |-> in.password,
                                   role |-> "employee", hourlyRate |-> rate.val])
               /\ currentPunch' = IF useFirestore
                                  THEN [currentPunch EXCEPT ![in.username] = NoPunch]
                                  ELSE currentPunch
               /\ last' = Outcome("addEmployee", "ok", NoUser)
    /\ UNCHANGED <<tzOffset, pureVars, useFirestore, logs, paySettings, nextLogId,
                   clock, currentUser, logsTable, punchHist,
                   payInput, addPending, punchPage>>

PayInputs ==
    { <<1, 6, Comma, Space, 1>>,
      <<4, 0, Comma, LetterX>>,
      <<1, 6, Comma, LetterX, Comma, 1>>,
      <<1, Comma, 1>> }

\* input.split(',').map(s => parseInt(s.trim())).filter(n => !isNaN(n) && n >= 1 && n <= 31)
ParseDays(input) ==
    LET tokens == SplitOn(input, Comma)
        nums == [i \in 1..Len(tokens) |-> parseInt(Trim(tokens[i]))]
        kept == SelectSeq(nums, LAMBDA n : ~n.nan /\ n.val >= 1 /\ n.val <= 31)
    IN [i \in 1..Len(kept) |-> kept[i].val]

SavePayPeriod(c, input) ==
    /\ steps < MaxSteps
    /\ steps' = steps + 1
    /\ AdminView(c)
    /\ LET parts == ParseDays(Trim(input))
       IN IF Len(parts) = 0
          THEN /\ last' = Outcome("savePayPeriod", "payPeriodInvalid", NoUser)
               /\ UNCHANGED paySettings
          ELSE /\ paySettings' = SortAsc(parts)
               /\ last' = Outcome("savePayPeriod", "ok", NoUser)
    /\ UNCHANGED <<tzOffset, pureVars, useFirestore, accounts, logs, currentPunch,
                   nextLogId, clock, clientVars, punchHist,
                   payInput, addPending, punchPage>>

\* time passes between two handlers
Tick ==
    /\ clock < Len(ClockInstants)
    /\ clock' = clock + 1
    /\ UNCHANGED <<tzOffset, pureVars, useFirestore, storeVars, clientVars, last,
                   steps, punchHist,
                   payInput, addPending, punchPage>>

IdleApp ==
    /\ useFirestore = FALSE
    /\ accounts = <<AdminAccount>>
    /\ logs = <<>>
    /\ paySettings = DefaultStartDays
    /\ currentPunch = [u \in Employees |-> NoPunch]
    /\ nextLogId = 1
    /\ clock = 1
    /\ currentUser = [c \in Clients |-> NoUser]
    /\ logsTable = [c \in Clients |-> <<>>]
    /\ last = Outcome("init", "ok", NoUser)
    /\ steps = 0
    /\ punchHist = [u \in Employees |-> NoHist]
    /\ payInput = <<>>
    /\ addPending = [c \in Clients |-> NoAdd]
    /\ punchPage = [c \in Clients |-> NoPage]

----------------------------------------------------------------------------
(* Inputs of the pure-function specifications                              *)

MaxStartDays == 3

TzOffsets == {-300, 0, 120}
AppTzOffsets == {-300, 120}

Range(s) == {s[i] : i \in 1..Len(s)}

\* well-formed 24h times "HH:MM"
TimeOf(h, m) == padStart2(DigitsOf(h)) \o <<Colon>> \o padStart2(DigitsOf(m))
CalcTimes == {TimeOf(h, m) : h \in {0, 8, 9, 12, 17, 23}, m \in {0, 1, 30, 59}}
CalcDeductions == {-600, -1, 0, 1, 30, 480, 481, 1500}

ResolveDates ==
    {t \in [y : {2023, 2024}, m : {1, 2, 3, 4, 5, 12},
            d : {1, 2, 14, 15, 16, 28, 29, 30, 31}, min : {0, 720, 1380}] :
        t.d <= DaysInMonth(t.y, t.m - 1)}
StartDayValues == {1, 15, 30, 31}
StartDaySeqs ==
    UNION {[1..n -> StartDayValues] : n \in 1..MaxStartDays}

IdleCalc ==
    /\ calcIn = <<>> /\ calcOut = <<>> /\ calcDed = 0 /\ calcRes = NoResult
IdleResolve ==
    /\ rsNow = [y |-> 2024, m |-> 1, d |-> 1, min |-> 0]
    /\ rsDays = <<>> /\ rsRes = <<>>
IdleTime ==
    /\ rtStr = <<>> /\ rtStrBack = <<>> /\ rtMin = NoResult /\ rtMinBack = NoResult
IdleSummary == summary = NoSummary

----------------------------------------------------------------------------
(* SpecCalc: computeWorkedMinutes applied to drawn arguments               *)

InitCalc ==
    /\ tzOffset = 0
    /\ calcIn \in CalcTimes
    /\ calcOut \in CalcTimes
    /\ calcDed \in CalcDeductions
    /\ calcRes = NoResult
    /\ IdleResolve
    /\ IdleTime
    /\ IdleSummary
    /\ IdleApp

CalcCall ==
    /\ calcRes = NoResult
    /\ calcRes' = computeWorkedMinutes(calcIn, calcOut, calcDed)
    /\ UNCHANGED <<tzOffset, calcIn, calcOut, calcDed, rsVars, rtVars, summary, appVars>>

NextCalc == CalcCall

----------------------------------------------------------------------------
(* SpecResolve: getPayPeriodStart applied to drawn arguments               *)

InitResolve ==
    /\ tzOffset \in TzOffsets
    /\ rsNow \in ResolveDates
    /\ rsDays \in StartDaySeqs
    /\ rsRes = <<>>
    /\ IdleCalc
    /\ IdleTime
    /\ IdleSummary
    /\ IdleApp

ResolveCall ==
    /\ rsRes = <<>>
    /\ rsRes' = getPayPeriodStart(rsNow, rsDays)
    /\ rsDays' = SortedCopy(rsDays).startDaysParam
    /\ UNCHANGED <<tzOffset, rsNow, calcVars, rtVars, summary, appVars>>

NextResolve == ResolveCall

----------------------------------------------------------------------------
(* SpecTime: the two time helpers composed, on every time of the day       *)

AllTimes == {TimeOf(h, m) : h \in 0..23, m \in 0..59}
AllMinutes == 0..(24 * 60 - 1)

InitTime ==
    /\ tzOffset = 0
    /\ \/ rtStr \in AllTimes /\ rtMin = NoResult
       \/ rtStr = <<>> /\ rtMin \in AllMinutes
    /\ rtStrBack = <<>>
    /\ rtMinBack = NoResult
    /\ IdleCalc
    /\ IdleResolve
    /\ IdleSummary
    /\ IdleApp

StringRoundTrip ==
    /\ rtStr # <<>>
    /\ rtStrBack = <<>>
    /\ rtStrBack' = minutesToTime(timeToMinutes(rtStr))
    /\ UNCHANGED <<tzOffset, calcVars, rsVars, rtStr, rtMin, rtMinBack, summary, appVars>>

MinutesRoundTrip ==
    /\ rtMin # NoResult
    /\ rtMinBack = NoResult
    /\ rtMinBack' = timeToMinutes(minutesToTime(rtMin))
    /\ UNCHANGED <<tzOffset, calcVars, rsVars, rtStr, rtStrBack, rtMin, summary, appVars>>

NextTime == StringRoundTrip \/ MinutesRoundTrip

----------------------------------------------------------------------------
(* SpecSummary: generateSummary on stores of logs of up to three           *)
(* employees, one of them named like a property of Object.prototype, in    *)
(* two pay periods; the account of ann may have been deleted since         *)

MaxSummaryLogs == 3

SummaryUsers == {"ann", "bob"} \cup ProtoNames
SummaryPeriods == {IsoOf(2024, 1, 1), IsoOf(2024, 1, 15)}
SummaryPunchOuts == {TimeOf(9, 30), TimeOf(17, 0)}

\* a log of a shift begun at 09:00 on the first day of its pay period
SummaryLog(username, period, punchOut) ==
    [id |-> NoId, username |-> username, date |-> period,
     punchIn |-> TimeOf(9, 0), punchOut |-> punchOut,
     minutesWorked |-> computeWorkedMinutes2(TimeOf(9, 0), punchOut),
     payPeriodStart |-> period, deduction |-> NoDeduction]

SummaryLogs ==
    {SummaryLog(u, p, o) : u \in SummaryUsers, p \in SummaryPeriods,
                           o \in SummaryPunchOuts}

\* with Firestore the logs carry their document ids
WithIds(ls) ==
    [i \in 1..Len(ls) |-> IF useFirestore THEN [ls[i] EXCEPT !.id = i] ELSE ls[i]]

SummaryAccounts ==
    { <<AdminAccount, EmployeeAccount("ann"), EmployeeAccount("bob"),
        EmployeeAccount("constructor")>>,
      <<AdminAccount, EmployeeAccount("bob"), EmployeeAccount("constructor")>> }

InitSummary ==
    /\ tzOffset = 0
    /\ useFirestore \in BOOLEAN
    /\ accounts \in SummaryAccounts
    /\ \E n \in 0..MaxSummaryLogs : \E ls \in [1..n -> SummaryLogs] : logs = WithIds(ls)
    /\ paySettings = DefaultStartDays
    /\ currentPunch = [u \in Employees |-> NoPunch]
    /\ nextLogId = IF useFirestore THEN Len(logs) + 1 ELSE 1
    /\ clock = 1
    /\ currentUser = [c \in Clients |-> IF c = 1 THEN "admin" ELSE NoUser]
    /\ logsTable = [c \in Clients |-> IF c = 1 THEN getLogs(logs) ELSE <<>>]
    /\ last = Outcome("login", "ok", NoUser)
    /\ steps = 1
    /\ punchHist = [u \in Employees |-> NoHist]
    /\ payInput = <<>>
    /\ addPending = [c \in Clients |-> NoAdd]
    /\ punchPage = [c \in Clients |-> NoPage]
    /\ summary = NoSummary
    /\ IdleCalc
    /\ IdleResolve
    /\ IdleTime

\* the Generate Summary button of the admin view
GenerateSummary(c) ==
    /\ AdminView(c)
    /\ ~summary.done
    /\ summary' = [done |-> TRUE, rows |-> generateSummary(getLogs(logs), accounts)]
    /\ UNCHANGED <<tzOffset, calcVars, rsVars, rtVars, appVars>>

NextSummary == \E c \in Clients : GenerateSummary(c)

----------------------------------------------------------------------------
(* SpecPay: an administrator types texts in the pay-period field and       *)
(* saves them                                                              *)

MaxPayTokens == 2

\* what stands between the commas: days, numbers out of range, a letter,
\* a day after a space, nothing
PayTokens == {<<1>>, <<1, 5>>, <<3, 1>>, <<0>>, <<3, 2>>, <<LetterX>>, <<Space, 7>>, <<>>}

RECURSIVE JoinWithCommas(_)
JoinWithCommas(tokens) ==
    IF Len(tokens) = 1 THEN tokens[1]
    ELSE tokens[1] \o <<Comma>> \o JoinWithCommas(Tail(tokens))

PayTexts ==
    {JoinWithCommas(t) : t \in UNION {[1..n -> PayTokens] : n \in 1..MaxPayTokens}}

InitPay ==
    /\ tzOffset = 0
    /\ useFirestore \in BOOLEAN
    /\ FreshStore
    /\ currentUser = [c \in Clients |-> IF c = 1 THEN "admin" ELSE NoUser]
    /\ logsTable = [c \in Clients |-> <<>>]
    /\ last = Outcome("login", "ok", NoUser)
    /\ steps = 1
    /\ punchHist = [u \in Employees |-> NoHist]
    /\ payInput = <<>>
    /\ addPending = [c \in Clients |-> NoAdd]
    /\ punchPage = [c \in Clients |-> NoPage]
    /\ IdleCalc
    /\ IdleResolve
    /\ IdleTime
    /\ IdleSummary

\* the administrator edits the field
TypePayInput(text) ==
    /\ payInput' = text
    /\ payInput' # payInput
    /\ UNCHANGED <<tzOffset, pureVars, useFirestore, storeVars, clock, clientVars,
                   last, steps, punchHist, addPending, punchPage>>

\* the Save button, on the text in the field
SavePayPeriodTyped(c) == SavePayPeriod(c, payInput)

NextPay ==
    \/ \E text \in PayTexts : TypePayInput(text)
    \/ \E c \in Clients : SavePayPeriodTyped(c)

----------------------------------------------------------------------------
(* SpecAdd: two administrators add employees, the handler taken in the two *)
(* parts its await of Storage.getAccounts() separates                      *)

AddRaceInputs ==
    [username : {"ann", "admin", ""}, password : {"pw", "pw2"}, rate : {<<2, 0>>, <<1, 5>>}]

InitAdd ==
    /\ tzOffset = 0
    /\ useFirestore \in BOOLEAN
    /\ FreshStore
    /\ currentUser = [c \in Clients |-> "admin"]
    /\ logsTable = [c \in Clients |-> <<>>]
    /\ last = Outcome("login", "ok", NoUser)
    /\ steps = 1
    /\ punchHist = [u \in Employees |-> NoHist]
    /\ payInput = <<>>
    /\ addPending = [c \in Clients |-> NoAdd]
    /\ punchPage = [c \in Clients |-> NoPage]
    /\ IdleCalc
    /\ IdleResolve
    /\ IdleTime
    /\ IdleSummary

\* the click: the fields are validated and the read of the accounts is sent
AddEmployeeRead(c, in) ==
    /\ steps < MaxSteps
    /\ steps' = steps + 1
    /\ AdminView(c)
    /\ addPending[c] = NoAdd
    /\ LET rate == parseInt(in.rate)
       IN IF in.username = "" \/ in.password = "" \/ rate.nan
          THEN /\ last' = Outcome("addEmployee", "addEmployeeError", NoUser)
               /\ UNCHANGED addPending
          ELSE /\ addPending' = [addPending EXCEPT ![c] =
                                    [account |-> [username |-> in.username,
                                                  password |-> in.password,
                                                  role |-> "employee",
                                                  hourlyRate |-> rate.val],
                                     accounts |-> accounts]]
               /\ last' = Outcome("addEmployeeRead", "ok", in.username)
    /\ UNCHANGED <<tzOffset, pureVars, useFirestore, storeVars, clock, currentUser,
                   logsTable, punchHist, payInput, punchPage>>

\* the rest of the handler, on the accounts the read returned
AddEmployeeResume(c) ==
    /\ steps < MaxSteps
    /\ steps' = steps + 1
    /\ addPending[c] # NoAdd
    /\ addPending' = [addPending EXCEPT ![c] = NoAdd]
    /\ LET account == addPending[c].account
           read == addPending[c].accounts
       IN IF \E i \in 1..Len(read) : read[i].username = account.username
          THEN /\ last' = Outcome("addEmployee", "addEmployeeError", account.username)
               /\ UNCHANGED <<accounts, currentPunch>>
          ELSE /\ accounts' = upsertAccount(accounts, account)
               /\ currentPunch' = IF useFirestore /\ account.username \in Employees
                                  THEN [currentPunch EXCEPT ![account.username] = NoPunch]
                                  ELSE currentPunch
               /\ last' = Outcome("addEmployee", "ok", account.username)
    /\ UNCHANGED <<tzOffset, pureVars, useFirestore, logs, paySettings, nextLogId,
                   clock, currentUser, logsTable, punchHist, payInput, punchPage>>

NextAdd ==
    \/ \E c \in Clients, in \in AddRaceInputs : AddEmployeeRead(c, in)
    \/ \E c \in Clients : AddEmployeeResume(c)

----------------------------------------------------------------------------
(* SpecFail: employees punch in and out while calls of the storage         *)
(* backend may reject                                                      *)

\* the awaited storage calls of the punch-out handler
PunchOutCalls == {"getCurrentPunch", "getPaySettings", "addLog", "setCurrentPunch"}

\* the punch-out handler when the call `failing` rejects ("none": no call
\* does).  A rejection that is not caught ends the async function there.
PunchOutWith(c, failing) ==
    /\ steps < MaxSteps
    /\ steps' = steps + 1
    /\ EmployeeView(c)
    /\ punchHist' = [punchHist EXCEPT ![currentUser[c]] = NoHist]
    /\ LET username == currentUser[c]
           punchRecord == currentPunch[username]
           \* try { startDays = settings.startDays } catch (e) { startDays = [1, 15] }
           startDays == IF failing = "getPaySettings" THEN DefaultStartDays ELSE paySettings
       IN IF failing = "getCurrentPunch"
          THEN /\ last' = Outcome("punchOut", "punchOutFailed", username)
               /\ UNCHANGED <<logs, currentPunch, nextLogId>>
          ELSE IF PunchOutRejects(punchRecord)
          THEN \* alert('No punch in record found for today.')
               /\ last' = Outcome("punchOut", "noPunchRecord", username)
               /\ UNCHANGED <<logs, currentPunch, nextLogId>>
          ELSE IF failing = "addLog"
          THEN /\ last' = Outcome("punchOut", "punchOutFailed", username)
               /\ UNCHANGED <<logs, currentPunch, nextLogId>>
          ELSE /\ \E p \in 1..(Len(logs) + 1) :
                      logs' = addLog(logs, NewLog(username, punchRecord, Now, startDays), p)
               /\ nextLogId' = IF useFirestore THEN nextLogId + 1 ELSE nextLogId
               /\ IF failing = "setCurrentPunch"
                  THEN /\ last' = Outcome("punchOut", "punchOutFailed", username)
                       /\ UNCHANGED currentPunch
                  ELSE /\ currentPunch' = setCurrentPunch(currentPunch, username, NoPunch)
                       /\ last' = Outcome("punchOut", "ok", username)
    /\ UNCHANGED <<tzOffset, pureVars, useFirestore, accounts, paySettings,
                   clock, currentUser, logsTable,
                   payInput, addPending, punchPage>>

\* ann and bob are logged in; the admin has left the start days as they
\* were or has saved "16, 1"
InitFail ==
    /\ tzOffset = 0
    /\ useFirestore \in BOOLEAN
    /\ accounts = <<AdminAccount, EmployeeAccount("ann"), EmployeeAccount("bob")>>
    /\ logs = <<>>
    /\ paySettings \in {DefaultStartDays, <<1, 16>>}
    /\ currentPunch = [u \in Employees |-> NoPunch]
    /\ nextLogId = 1
    /\ clock = 1
    /\ currentUser = [c \in Clients |-> IF c = 1 THEN "ann" ELSE "bob"]
    /\ logsTable = [c \in Clients |-> <<>>]
    /\ last = Outcome("login", "ok", NoUser)
    /\ steps = 2
    /\ punchHist = [u \in Employees |-> NoHist]
    /\ payInput = <<>>
    /\ addPending = [c \in Clients |-> NoAdd]
    /\ punchPage = [c \in Clients |-> NoPage]
    /\ IdleCalc
    /\ IdleResolve
    /\ IdleTime
    /\ IdleSummary

NextFail ==
    \/ \E c \in Clients : PunchIn(c)
    \/ \E c \in Clients, failing \in PunchOutCalls \cup {"none"} : PunchOutWith(c, failing)
    \/ Tick

----------------------------------------------------------------------------
(* SpecPunch: the punch handlers of two employee views, each taken in the  *)
(* two parts its await separates, with the buttons the views show.  A      *)
(* handler takes `now` and, where it reads the punch map, reads it when it *)
(* is called; what follows the await runs later.                           *)

\* the employee view after loadEmployeeView or a punch handler has set its buttons
LoadedPage(punchInShown) == [NoPage EXCEPT !.punchInShown = punchInShown]

\* ann and bob have accounts; some of them punched in at the first instant;
\* each client is the employee view of one of them, loaded after that punch-in
\* (punch-out button) or before it, when another view made it (punch-in button)
InitPunch ==
    /\ tzOffset = 0
    /\ useFirestore \in BOOLEAN
    /\ accounts = <<AdminAccount, EmployeeAccount("ann"), EmployeeAccount("bob")>>
    /\ logs = <<>>
    /\ paySettings = DefaultStartDays
    /\ \E open \in SUBSET Employees :
          /\ currentPunch = [u \in Employees |->
                                IF u \in open THEN PunchRecord(ClockInstants[1]) ELSE NoPunch]
          /\ currentUser \in [Clients -> Employees]
          /\ \E shown \in [Clients -> BOOLEAN] :
                /\ punchPage = [c \in Clients |-> LoadedPage(shown[c])]
                /\ \A c \in Clients : ~shown[c] => currentUser[c] \in open
                /\ \A u \in open :
                      (\A c \in Clients : currentUser[c] = u) => \E c \in Clients : ~shown[c]
    /\ nextLogId = 1
    /\ clock = 1
    /\ logsTable = [c \in Clients |-> <<>>]
    /\ last = Outcome("login", "ok", NoUser)
    /\ steps = 1
    /\ punchHist = [u \in Employees |-> NoHist]
    /\ payInput = <<>>
    /\ addPending = [c \in Clients |-> NoAdd]
    /\ IdleCalc
    /\ IdleResolve
    /\ IdleTime
    /\ IdleSummary

\* the click on the punch-in button, up to the await
PunchInClick(c) ==
    /\ steps < MaxSteps
    /\ steps' = steps + 1
    /\ EmployeeView(c)
    /\ punchPage[c].punchInShown
    /\ punchPage[c].op = ""
    /\ punchPage' = [punchPage EXCEPT ![c] =
                        [@ EXCEPT !.op = "punchIn", !.at = clock,
                                  !.map = IF useFirestore THEN @ ELSE currentPunch]]
    /\ last' = Outcome("punchInClick", "ok", currentUser[c])
    /\ UNCHANGED <<tzOffset, pureVars, useFirestore, storeVars, clock, currentUser,
                   logsTable, punchHist, payInput, addPending>>

\* the rest of the punch-in handler
PunchInResume(c) ==
    /\ steps < MaxSteps
    /\ steps' = steps + 1
    /\ punchPage[c].op = "punchIn"
    /\ LET username == currentUser[c]
           record == PunchRecord(ClockInstants[punchPage[c].at])
       IN IF useFirestore /\ ~HasAccount(username)
          THEN /\ last' = Outcome("punchIn", "punchInFailed", username)
               /\ punchPage' = [punchPage EXCEPT ![c] = LoadedPage(TRUE)]
               /\ UNCHANGED currentPunch
          ELSE /\ currentPunch' =
                     IF useFirestore THEN setCurrentPunch(currentPunch, username, record)
                     ELSE setCurrentPunch(punchPage[c].map, username, record)
               /\ punchPage' = [punchPage EXCEPT ![c] = LoadedPage(FALSE)]
               /\ last' = Outcome("punchIn", "ok", username)
    /\ UNCHANGED <<tzOffset, pureVars, useFirestore, accounts, logs, paySettings,
                   nextLogId, clock, currentUser, logsTable, punchHist,
                   payInput, addPending>>

\* the click on the punch-out button, up to the await after the check of the
\* punch record
PunchOutClick(c) ==
    /\ steps < MaxSteps
    /\ steps' = steps + 1
    /\ EmployeeView(c)
    /\ ~punchPage[c].punchInShown
    /\ punchPage[c].op = ""
    /\ IF PunchOutRejects(currentPunch[currentUser[c]])
       THEN /\ last' = Outcome("punchOut", "noPunchRecord", currentUser[c])
            /\ UNCHANGED punchPage
       ELSE /\ punchPage' = [punchPage EXCEPT ![c] =
                               [@ EXCEPT !.op = "punchOut", !.at = clock,
                                         !.map = currentPunch]]
            /\ last' = Outcome("punchOutClick", "ok", currentUser[c])
    /\ UNCHANGED <<tzOffset, pureVars, useFirestore, storeVars, clock, currentUser,
                   logsTable, punchHist, payInput, addPending>>

\* the rest of the punch-out handler
PunchOutResume(c) ==
    /\ steps < MaxSteps
    /\ steps' = steps + 1
    /\ punchPage[c].op = "punchOut"
    /\ LET username == currentUser[c]
           currentPunchMap == punchPage[c].map
           now == ClockInstants[punchPage[c].at]
       IN /\ \E p \in 1..(Len(logs) + 1) :
                logs' = addLog(logs, NewLog(username, currentPunchMap[username],
                                            now, paySettings), p)
          /\ nextLogId' = IF useFirestore THEN nextLogId + 1 ELSE nextLogId
          /\ currentPunch' =
                IF useFirestore THEN setCurrentPunch(currentPunch, username, NoPunch)
                ELSE setCurrentPunch(currentPunchMap, username, NoPunch)
          /\ last' = Outcome("punchOut", "ok", username)
    /\ punchPage' = [punchPage EXCEPT ![c] = LoadedPage(TRUE)]
    /\ UNCHANGED <<tzOffset, pureVars, useFirestore, accounts, paySettings,
                   clock, currentUser, logsTable, punchHist, payInput, addPending>>

NextPunch ==
    \/ \E c \in Clients : PunchInClick(c)
    \/ \E c \in Clients : PunchInResume(c)
    \/ \E c \in Clients : PunchOutClick(c)
    \/ \E c \in Clients : PunchOutResume(c)
    \/ Tick

----------------------------------------------------------------------------
(* Spec: the application, handlers of the clients taken one at a time      *)

Init ==
    /\ tzOffset \in AppTzOffsets
    /\ InitApp
    /\ IdleCalc
    /\ IdleResolve
    /\ IdleTime
    /\ IdleSummary

Next ==
    \/ \E c \in Clients, in \in LoginInputs : Login(c, in)
    \/ \E c \in Clients : Logout(c)
    \/ \E c \in Clients : PunchIn(c)
    \/ \E c \in Clients : PunchOut(c)
    \/ \E c \in Clients : \E row \in 1..Len(logsTable[c]), input \in DeductInputs :
           SaveDeduct(c, row, input)
    \/ \E c \in Clients, username \in Employees : DeleteEmployee(c, username)
    \/ \E c \in Clients, in \in AddInputs : AddEmployee(c, in)
    \/ \E c \in Clients, input \in PayInputs : SavePayPeriod(c, input)
    \/ Tick

Spec == Init /\ [][Next]_vars

SpecCalc == InitCalc /\ [][NextCalc]_vars

SpecResolve == InitResolve /\ [][NextResolve]_vars

SpecTime == InitTime /\ [][NextTime]_vars

SpecSummary == InitSummary /\ [][NextSummary]_vars

SpecPay == InitPay /\ [][NextPay]_vars

SpecAdd == InitAdd /\ [][NextAdd]_vars

SpecFail == InitFail /\ [][NextFail]_vars

SpecPunch == InitPunch /\ [][NextPunch]_vars

----------------------------------------------------------------------------
(* Properties of the worked-time calculator, checked under SpecCalc        *)

\* the hour and the minute read off a well-formed "HH:MM" directly
HourOf(s) == s[1] * 10 + s[2]
MinuteOf(s) == s[4] * 10 + s[5]
MinuteOfDay(s) == HourOf(s) * 60 + MinuteOf(s)
Max2(a, b) == IF a >= b THEN a ELSE b

CalcDone == calcRes # NoResult

\* C5: computeWorkedMinutes never returns a negative number, whatever integer
\* the deduction is, a deduction larger than the elapsed time included.
C5_NeverNegative == CalcDone => calcRes >= 0

\* C5, its case: a deduction larger than a positive elapsed time, result 0
C5_Witness ==
    /\ CalcDone
    /\ MinuteOfDay(calcOut) > MinuteOfDay(calcIn)
    /\ calcDed > MinuteOfDay(calcOut) - MinuteOfDay(calcIn)
    /\ calcRes = 0

\* C6: for well-formed times and a deduction d >= 0 the result is
\* max(0, max(0, out - in) - d) in minutes of the day, so a punch-out earlier
\* in the day than the punch-in counts as zero elapsed time, not as a shift
\* over midnight.
C6_ElapsedMinusDeduction ==
    (CalcDone /\ calcDed >= 0) =>
        calcRes = Max2(0, Max2(0, MinuteOfDay(calcOut) - MinuteOfDay(calcIn)) - calcDed)

\* C6, its case: the punch-out is earlier in the day than the punch-in
C6_Witness ==
    /\ CalcDone
    /\ calcDed >= 0
    /\ MinuteOfDay(calcOut) < MinuteOfDay(calcIn)
    /\ calcRes = 0

----------------------------------------------------------------------------
(* Properties of the pay-period resolver, checked under SpecResolve        *)

ResolveDone == rsRes # <<>>

\* the calendar date of the instant on the host's clock, and the start days
\* as a set
LocalDate == LocalFields(rsNow)
StartDaySet == Range(rsDays)

PrevMonthOf(t) ==
    IF t.m = 1 THEN [y |-> t.y - 1, m |-> 12] ELSE [y |-> t.y, m |-> t.m - 1]

\* C7: when the day of the month is at or past a configured start day, the
\* result is the date of the same month and year whose day is the largest
\* start day that is at most that day, for every timezone offset of the host.
C7_SameMonthLargestStartDay ==
    (ResolveDone /\ \E sd \in StartDaySet : sd <= LocalDate.d) =>
        rsRes = IsoOf(LocalDate.y, LocalDate.m,
                      MaxOf({sd \in StartDaySet : sd <= LocalDate.d}))

\* C8: when the day of the month is below every configured start day, the
\* result is in the previous month (December of the previous year for a date
\* in January) and its day is min(largest start day, days in that month).
C8_PreviousMonthClamped ==
    (ResolveDone /\ \A sd \in StartDaySet : sd > LocalDate.d) =>
        LET pm == PrevMonthOf(LocalDate)
        IN rsRes = IsoOf(pm.y, pm.m,
                         Min2(MaxOf(StartDaySet), DaysInMonth(pm.y, pm.m - 1)))

\* C9: when the start days contain 31 and the date is the last day of a
\* 30-day month or of February, the result is that last day of the same
\* month.  Stated for a host whose clock is UTC, where local and ISO dates
\* agree.
C9_ShortMonthLastDay ==
    (/\ ResolveDone
     /\ tzOffset = 0
     /\ 31 \in StartDaySet
     /\ LocalDate.d = DaysInMonth(LocalDate.y, LocalDate.m - 1)
     /\ LocalDate.d < 31) =>
        rsRes = IsoOf(LocalDate.y, LocalDate.m, LocalDate.d)

RECURSIVE SetToSeq(_)
\* the members of a set of numbers, in ascending order, each once
SetToSeq(X) == IF X = {} THEN <<>> ELSE <<MinOf(X)>> \o SetToSeq(X \ {MinOf(X)})

\* C10: the result depends only on the set of start days, so it is the result
\* for that set listed once in ascending order, however the caller's sequence
\* orders or repeats them; and the call leaves the caller's sequence as it was.
C10_OrderAndRepeatsIrrelevant ==
    [][rsRes' # rsRes =>
          /\ rsRes' = getPayPeriodStart(rsNow, SetToSeq(StartDaySet))
          /\ rsDays' = rsDays]_vars

\* C10, its case: resolved from a sequence that is out of order and repeats
C10_Witness ==
    /\ ResolveDone
    /\ \E i, j \in 1..Len(rsDays) : i < j /\ rsDays[i] > rsDays[j]
    /\ \E i, j \in 1..Len(rsDays) : i < j /\ rsDays[i] = rsDays[j]

----------------------------------------------------------------------------
(* Properties of the punch tracker and of the stored logs, checked under   *)
(* Spec                                                                    *)

\* the step is a run of the punch-out handler by employee u
PunchOutBy(u) ==
    /\ steps' = steps + 1
    /\ last'.op = "punchOut"
    /\ last'.user = u

\* how many of the logs are of employee u
CountOf(ls, u) == Cardinality({i \in 1..Len(ls) : ls[i].username = u})

RemoveAt(s, i) == SubSeq(s, 1, i - 1) \o SubSeq(s, i + 1, Len(s))

\* the punch-out adds one log of u, closes u's session and reports no error
PunchOutAccepted(u) ==
    /\ last'.msg = "ok"
    /\ Len(logs') = Len(logs) + 1
    /\ CountOf(logs', u) = CountOf(logs, u) + 1
    /\ currentPunch'[u] = NoPunch

\* the punch-out reports the error and leaves logs and sessions as they were
PunchOutRefused ==
    /\ last'.msg = "noPunchRecord"
    /\ logs' = logs
    /\ currentPunch' = currentPunch

C2_PunchOutWithoutSession ==
    [][\A u \in Employees :
          (PunchOutBy(u) /\ (currentPunch[u] = NoPunch \/ currentPunch[u].date # Today))
              => PunchOutRefused]_vars

\* C2, its case: a punch-out was rejected and the stale session is still there
C2_Witness ==
    /\ last.op = "punchOut"
    /\ last.msg = "noPunchRecord"
    /\ currentPunch[last.user] # NoPunch
    /\ currentPunch[last.user].date # Today

\* the instant a "YYYY-MM-DD" date begins at on the host's clock
DateOfIso(s) ==
    NewDate(NumberOf(SubSeq(s, 1, 4)), NumberOf(SubSeq(s, 6, 7)) - 1,
            NumberOf(SubSeq(s, 9, 10)))

\* C3: the log a punch-out emits has for payPeriodStart the resolver's result
\* for that log's own date and the start days configured at the punch-out,
\* at every instant and for every timezone offset of the host.
C3_PayPeriodOfLogDate ==
    [][\A u \in Employees : (PunchOutBy(u) /\ last'.msg = "ok") =>
          \A i \in 1..Len(logs') :
              (RemoveAt(logs', i) = logs) =>
                  logs'[i].payPeriodStart =
                      getPayPeriodStart(DateOfIso(logs'[i].date), paySettings)]_vars

\* C4: every stored log's minutesWorked is computeWorkedMinutes of its own
\* punchIn, punchOut and deduction (0 when it has none), after any sequence
\* of punch-outs, deduction saves and account deletions.
C4_MinutesOfOwnTimes ==
    \A i \in 1..Len(logs) :
        logs[i].minutesWorked =
            computeWorkedMinutes(logs[i].punchIn, logs[i].punchOut,
                IF logs[i].deduction = NoDeduction THEN 0 ELSE logs[i].deduction)

----------------------------------------------------------------------------
(* Properties of the time helpers, checked under SpecTime                  *)

\* C15: minutesToTime(timeToMinutes(s)) = s for every well-formed "HH:MM"
\* with HH in 00..23 and MM in 00..59, and timeToMinutes(minutesToTime(m)) = m
\* for every m in 0..1439.
C15_TimeRoundTrip ==
    /\ rtStrBack # <<>> => rtStrBack = rtStr
    /\ rtMinBack # NoResult => rtMinBack = rtMin

\* C15, its case: a time whose hour and minute both need the leading zero
\* has made the round trip
C15_Witness ==
    /\ rtStrBack # <<>>
    /\ rtStr[1] = 0 /\ rtStr[2] # 0
    /\ rtStr[4] = 0 /\ rtStr[5] # 0

----------------------------------------------------------------------------
(* Properties of the summary, checked under SpecSummary                    *)

\* the (payPeriodStart, username) pairs occurring in a sequence of logs
PairsOf(ls) == {<<ls[i].payPeriodStart, ls[i].username>> : i \in 1..Len(ls)}

RECURSIVE SumOver(_, _)
\* the sum of minutesWorked over the logs with the pair pr
SumOver(ls, pr) ==
    IF ls = <<>> THEN 0
    ELSE (IF <<ls[1].payPeriodStart, ls[1].username>> = pr THEN ls[1].minutesWorked ELSE 0)
         + SumOver(Tail(ls), pr)

RowsWith(rows, pr) == {i \in 1..Len(rows) : <<rows[i].period, rows[i].user>> = pr}

\* C11: the summary has exactly one row for each distinct (payPeriodStart,
\* username) pair of the stored logs and no other row, and each row's total
\* minutes is the sum of minutesWorked over the logs of its pair; for no logs
\* the summary is empty.
C11_OneRowPerPairWithSum ==
    summary.done =>
        /\ \A pr \in PairsOf(logs) : Cardinality(RowsWith(summary.rows, pr)) = 1
        /\ \A i \in 1..Len(summary.rows) :
               LET pr == <<summary.rows[i].period, summary.rows[i].user>>
               IN /\ pr \in PairsOf(logs)
                  /\ summary.rows[i].totalMins = MinutesValue(SumOver(logs, pr))
        /\ (logs = <<>> => summary.rows = <<>>)

\* the logs at the places of the set I, in their order
RECURSIVE SubLogs(_, _, _)
SubLogs(ls, I, k) ==
    IF k > Len(ls) THEN <<>>
    ELSE (IF k \in I THEN <<ls[k]>> ELSE <<>>) \o SubLogs(ls, I, k + 1)

\* the minute total of the pair pr in the rows of a summary, 0 when it has no
\* row; defined when the total is a number
TotalIn(rows, pr) ==
    IF RowsWith(rows, pr) = {} THEN 0
    ELSE rows[CHOOSE i \in RowsWith(rows, pr) : TRUE].totalMins.val

TotalsAreNumbers(rows) == \A i \in 1..Len(rows) : ~rows[i].totalMins.fn

\* C12: for every split of the logs into two disjoint parts, the totals of
\* the two parts' summaries added pair by pair are the totals of the summary
\* of all the logs; and the totals are the same for the logs in any order.
C12_AggregationLinear ==
    summary.done =>
        LET all == getLogs(logs)
            idx == 1..Len(all)
        IN /\ TotalsAreNumbers(summary.rows)
           /\ \A I \in SUBSET idx :
                  LET a == generateSummary(SubLogs(all, I, 1), accounts)
                      b == generateSummary(SubLogs(all, idx \ I, 1), accounts)
                  IN /\ TotalsAreNumbers(a) /\ TotalsAreNumbers(b)
                     /\ \A pr \in PairsOf(all) :
                            TotalIn(a, pr) + TotalIn(b, pr) = TotalIn(summary.rows, pr)
           /\ \A f \in Permutations(idx) :
                  LET r == generateSummary([i \in idx |-> all[f[i]]], accounts)
                  IN \A pr \in PairsOf(all) :
                         /\ RowsWith(r, pr) # {}
                         /\ r[CHOOSE i \in RowsWith(r, pr) : TRUE].totalMins
                              = summary.rows[CHOOSE i \in RowsWith(summary.rows, pr) : TRUE].totalMins

\* C13: the rows are in non-decreasing order of payPeriodStart, whatever the
\* order of the logs in storage, and the rows of one period are contiguous.
C13_RowsAscendingByPeriod ==
    summary.done =>
        \A i, j \in 1..Len(summary.rows) :
            i < j =>
                /\ ~StrLess(summary.rows[j].period, summary.rows[i].period)
                /\ summary.rows[i].period = summary.rows[j].period =>
                       \A k \in i..j : summary.rows[k].period = summary.rows[i].period

\* C13, its case: the stored logs begin with one of the later period, then
\* one of the earlier period
C13_Witness ==
    /\ summary.done
    /\ ~useFirestore
    /\ Len(logs) >= 2
    /\ StrLess(logs[2].payPeriodStart, logs[1].payPeriodStart)
    /\ Len(summary.rows) >= 2

\* the rate the summary is to use for a username
ExpectedRate(user) ==
    IF \E i \in 1..Len(accounts) :
           /\ accounts[i].username = user
           /\ accounts[i].role = "employee"
           /\ accounts[i].hourlyRate # NoRate
    THEN LET i == CHOOSE k \in 1..Len(accounts) : accounts[k].username = user
         IN accounts[i].hourlyRate
    ELSE 0

----------------------------------------------------------------------------
(* Properties of account deletion, checked under Spec                      *)

RECURSIVE OthersOf(_, _)
\* the members of a sequence of accounts or of logs that are not of username
\* u, in their order
OthersOf(s, u) ==
    IF s = <<>> THEN <<>>
    ELSE IF s[Len(s)].username = u THEN OthersOf(SubSeq(s, 1, Len(s) - 1), u)
    ELSE Append(OthersOf(SubSeq(s, 1, Len(s) - 1), u), s[Len(s)])

\* the step is a run of the delete handler, for the account of u
DeleteOf(u) ==
    /\ steps' = steps + 1
    /\ last'.op = "delete"
    /\ last'.user = u

C17_LogsOfExistingAccounts ==
    \A i \in 1..Len(logs) : HasAccount(logs[i].username)

----------------------------------------------------------------------------
(* Properties of the pay settings, checked under SpecPay and Spec          *)

\* what an entry of the field must be, read off the text: after trimming,
\* one or two digits that make a number in 1..31
EntryIsDay(token) ==
    LET t == Trim(token)
    IN /\ Len(t) \in {1, 2}
       /\ \A i \in 1..Len(t) : t[i] \in 0..9
       /\ NumberOf(t) \in 1..31

EntriesOf(text) == SplitOn(Trim(text), Comma)

\* the step is a run of the pay-period save handler
PaySave ==
    /\ steps' = steps + 1
    /\ last'.op = "savePayPeriod"

\* C18: a pay-period save whose input has an invalid entry (not a number, or
\* a number outside 1..31), or nothing valid at all, is rejected with a
\* message and leaves the stored settings as they were: the valid entries of
\* such an input are not saved on their own.
C18_InvalidEntryRejectsSave ==
    [][(PaySave /\ \E i \in 1..Len(EntriesOf(payInput)) :
                        ~EntryIsDay(EntriesOf(payInput)[i]))
          => (last'.msg = "payPeriodInvalid" /\ paySettings' = paySettings)]_vars

\* startDays is a non-empty, strictly ascending sequence of days 1..31
StartDaysWellFormed(sd) ==
    /\ Len(sd) >= 1
    /\ \A i \in 1..Len(sd) : sd[i] \in 1..31
    /\ \A i \in 1..(Len(sd) - 1) : sd[i] < sd[i + 1]

\* C19: in every reachable state the stored startDays is a non-empty,
\* strictly ascending sequence of integers in 1..31; it is <<1, 15>> until a
\* save of an administrator succeeds, and only such a save changes it.
C19_StartDaysOrderedSet ==
    /\ []StartDaysWellFormed(paySettings)
    /\ [][paySettings' # paySettings =>
              (PaySave /\ last'.msg = "ok" /\ \E c \in Clients : AdminView(c))]_vars

----------------------------------------------------------------------------
(* Properties of adding an employee, checked under SpecAdd                 *)

\* the step is the end of client c's add-employee request
AddCompletes(c) ==
    /\ addPending[c] # NoAdd
    /\ addPending'[c] = NoAdd

\* C20: an add-employee request whose username is that of an existing
\* account, of any role, is rejected and writes nothing: the accounts are
\* what they were before it. This holds also when two requests for the same
\* username are in flight at once.
C20_DuplicateUsernameRejected ==
    [][\A c \in Clients :
          (AddCompletes(c) /\ HasAccount(addPending[c].account.username))
             => (accounts' = accounts /\ last'.msg = "addEmployeeError")]_vars

----------------------------------------------------------------------------
(* Properties of the deduction save, checked under Spec                    *)

\* the input is a count of minutes: digits and nothing else
InputIsCount(input) ==
    /\ Len(input) >= 1
    /\ \A i \in 1..Len(input) : input[i] \in 0..9

\* two records are of the same log: a log is one punch-in and punch-out of
\* one user
SameLog(a, b) ==
    /\ a.id = b.id
    /\ a.username = b.username
    /\ a.date = b.date
    /\ a.punchIn = b.punchIn
    /\ a.punchOut = b.punchOut

\* the minutes between the punch-in and the punch-out of a log
Undeducted(log) == Max2(0, MinuteOfDay(log.punchOut) - MinuteOfDay(log.punchIn))

\* C21: a deduction save with a non-numeric or negative input is not
\* rejected: it stores deduction 0 and the undeducted worked minutes on the
\* log of the edited row (as long as that log is stored); and in every
\* reachable state the deduction stored with a log, if any, is an integer
\* that is not negative.
C21_InvalidDeductionCoerced ==
    /\ [](\A i \in 1..Len(logs) :
             logs[i].deduction = NoDeduction \/ logs[i].deduction \in Nat)
    /\ [][\A c \in Clients, input \in DeductInputs : \A row \in 1..Len(logsTable[c]) :
             (/\ ~InputIsCount(input)
              /\ SaveDeduct(c, row, input)
              /\ \E i \in 1..Len(logs) : SameLog(logs[i], logsTable[c][row]))
                => \E i \in 1..Len(logs') :
                      /\ SameLog(logs'[i], logsTable[c][row])
                      /\ logs'[i].deduction = 0
                      /\ logs'[i].minutesWorked = Undeducted(logs'[i])]_vars

----------------------------------------------------------------------------
(* Properties of the punch-out with a failing backend, checked under       *)
(* SpecFail                                                                *)

\* C22: a punch-out during which a storage call fails (the read of the punch
\* map, the read of the pay settings, the write of the log, the clearing of
\* the session) is not shown as a success and leaves the logs and the punch
\* sessions as they were; a failed read of the pay settings writes no log
\* with substitute start days.
C22_FailedPunchOutChangesNothing ==
    [][\A c \in Clients, failing \in PunchOutCalls :
          PunchOutWith(c, failing)
             => (logs' = logs /\ currentPunch' = currentPunch /\ last'.msg # "ok")]_vars

----------------------------------------------------------------------------
(* Properties of the punch handlers of concurrent views, checked under     *)
(* SpecPunch                                                               *)

\* the step is the end of the punch-in handler of client c
PunchInDone(c) ==
    /\ punchPage[c].op = "punchIn"
    /\ punchPage'[c].op = ""

\* the step is the end of the punch-out handler of client c
PunchOutDone(c) ==
    /\ punchPage[c].op = "punchOut"
    /\ punchPage'[c].op = ""

\* C23: a punch-in of a user who has an open session dated today is
\* rejected, and the stored session keeps its punchIn time.
C23_SecondPunchInRejected ==
    [][\A c \in Clients :
          (/\ PunchInDone(c)
           /\ currentPunch[currentUser[c]] # NoPunch
           /\ currentPunch[currentUser[c]].date = toISODate(ClockInstants[punchPage[c].at]))
             => (/\ currentPunch'[currentUser[c]] = currentPunch[currentUser[c]]
                 /\ last'.msg # "ok")]_vars

\* C24: a punch-in or a punch-out of one user leaves the open session of
\* every other user as it is, however the handlers of the clients interleave.
C24_PunchWritesScopedToUser ==
    [][\A c \in Clients :
          (PunchInDone(c) \/ PunchOutDone(c))
             => \A b \in Employees \ {currentUser[c]} :
                   currentPunch'[b] = currentPunch[b]]_vars

\* C27: one open session yields at most one log: a punch-out handler adds a
\* log only when the session it read is still the open session of its user,
\* so of two punch-outs of one session at most one adds a log.
C27_OneLogPerSession ==
    [][\A c \in Clients :
          (PunchOutDone(c) /\ Len(logs') > Len(logs))
             => currentPunch[currentUser[c]] = punchPage[c].map[currentUser[c]]]_vars

----------------------------------------------------------------------------
(* Properties of the fields of a stored log, checked under Spec            *)

\* what of a log is fixed when it is created
Frozen(log) ==
    [id |-> log.id, username |-> log.username, date |-> log.date,
     punchIn |-> log.punchIn, punchOut |-> log.punchOut,
     payPeriodStart |-> log.payPeriodStart]

FrozenSeq(ls) == [i \in 1..Len(ls) |-> Frozen(ls[i])]

\* C25: the username, date, punchIn, punchOut and payPeriodStart of a log
\* never change while the log exists.  A step leaves the stored logs with
\* these fields as they were, or removes the logs of one user, or adds one
\* log; a deduction save leaves them as they were (it changes minutesWorked
\* and deduction only), and a save of pay-period start days changes no log.
C25_LogFieldsImmutable ==
    [][/\ \/ FrozenSeq(logs') = FrozenSeq(logs)
          \/ \E u \in Employees : FrozenSeq(logs') = FrozenSeq(OthersOf(logs, u))
          \/ \E p \in 1..Len(logs') : FrozenSeq(RemoveAt(logs', p)) = FrozenSeq(logs)
       /\ last'.op = "saveDeduct" /\ steps' = steps + 1
             => FrozenSeq(logs') = FrozenSeq(logs)
       /\ PaySave => logs' = logs]_vars

\* C25, its case: after a save of new start days, a deduction of 30 minutes
\* was saved on a log, whose pay period is still the one it was created with
C25_Witness ==
    /\ last.op = "saveDeduct"
    /\ last.msg = "ok"
    /\ paySettings # DefaultStartDays
    /\ \E i \in 1..Len(logs) :
          /\ logs[i].deduction = 30
          /\ logs[i].payPeriodStart = getPayPeriodStart(ClockInstants[2], DefaultStartDays)

\* C26: a deduction save changes the log of the edited row and no other
\* log, also when the stored logs have changed since the table was drawn.
C26_SaveChangesEditedLogOnly ==
    [][\A c \in Clients, input \in DeductInputs : \A row \in 1..Len(logsTable[c]) :
          SaveDeduct(c, row, input)
             => /\ Len(logs') = Len(logs)
                /\ \A i \in 1..Len(logs) :
                      logs'[i] # logs[i] => SameLog(logs[i], logsTable[c][row])]_vars

----------------------------------------------------------------------------
(* Properties of the resolver applied to its own result, checked under     *)
(* SpecResolve                                                             *)

\* C28: the resolver never returns a date after the date it is given, and
\* it is idempotent: the date it returns, resolved with the same start days,
\* is that date again, also when the start day was clamped in a short month.
C28_ResolveIdempotentNotLater ==
    ResolveDone =>
        /\ ~StrLess(IsoOf(LocalDate.y, LocalDate.m, LocalDate.d), rsRes)
        /\ getPayPeriodStart(DateOfIso(rsRes), rsDays) = rsRes

====
